---- MODULE Spec2Model ----
(***************************************************************************)
(* Model of two policy-engine blocks of the guardian service:              *)
(*   - RequestVcDocumentBlock (request-vc-document-block.ts): per-actor    *)
(*     active flag, setData with its await points, id generation,          *)
(*     validators;                                                         *)
(*   - MintBlock (mint-block.ts): runAction and mintProcessing with the    *)
(*     VC / VP ledger submissions, record persistence and token mint.      *)
(* Every `await` of the source is a suspension point: an action of the     *)
(* model is the synchronous code that runs when one await resumes.         *)
(***************************************************************************)
EXTENDS Integers, Sequences, FiniteSets, TLC

\* ------------------------------------------------------------------------
\* Bounds of the model
\* ------------------------------------------------------------------------
NumCalls == 2
NumValidators == 1
MaxValidators == 3
MaxDocs == 3

Calls == 1..NumCalls
Actors == {"did:a1", "did:a2"}
\* a user whose did is the empty string (falsy)
NoDid == ""
Users == Actors \cup {NoDid}
IdTypes == {"UUID", "DID", "OWNER", "NONE"}

VARIABLES
    state,        \* RequestVcDocumentBlock.state : did -> {active}
    schema,       \* RequestVcDocumentBlock.schema (memoised), TRUE when set
    repoSchema,   \* the Schema collection holds the block's schema
    reqOptions,   \* ref.options / ref.children of the Request block
    call,         \* in-flight setData calls
    didSeq,       \* number of DID documents created so far
    didMessages,  \* DID messages accepted by the ledger
    didRecords,   \* DidDocument collection
    walletKeys,   \* wallet: the KEY entries stored by setKey
    mintOptions,  \* ref.options of the Mint block
    mpc,          \* the await runAction is suspended at
    docs,         \* event.data.data of the incoming Run event
    local,        \* local variables of runAction / mintProcessing
    warnings,     \* ref.error calls of runAction that do not abort it
    ledger,       \* messages accepted by the ledger, in order
    vcRecords,    \* VcDocument records persisted by updateVCRecord
    vpRecords,    \* VpDocument records persisted by saveVP
    minted,       \* PolicyUtils.mint calls that returned
    mEvents,      \* output events triggered by runAction
    merr,         \* the error runAction failed with
    observed,     \* the last value getActive returned to a caller
    valOptions,   \* ref.options of the two blocks of a policy under validation
    resultsContainer, \* PolicyValidationResultsContainer: uuid -> errors
    validated     \* the validate calls that completed, in order

reqVars == <<state, schema, repoSchema, reqOptions, call, didSeq,
             didMessages, didRecords, walletKeys>>

mintVars == <<mintOptions, mpc, docs, local, warnings, ledger, vcRecords,
              vpRecords, minted, mEvents, merr>>

auxVars == <<observed, valOptions, resultsContainer, validated>>

vars == <<state, schema, repoSchema, reqOptions, call, didSeq,
          didMessages, didRecords, walletKeys,
          mintOptions, mpc, docs, local, warnings, ledger, vcRecords,
          vpRecords, minted, mEvents, merr,
          observed, valOptions, resultsContainer, validated>>

\* ------------------------------------------------------------------------
\* Request block: per-actor state
\* ------------------------------------------------------------------------

\* the state object after getActive(user): a missing entry is created and
\* an undefined active flag becomes true
GetActiveState(st, did) ==
    IF did \in DOMAIN st THEN st ELSE st @@ (did :> [active |-> TRUE])

\* getActive reading the block-wide default this.state.active of line 50
\* instead of the user's entry
GetActiveBlockDefault(st, did) == TRUE

\* the value getActive(user) returns
GetActive(st, did) == GetActiveState(st, did)[did].active

\* changeActive writing the flag of every entry of the state object
\* instead of the user's own entry
ChangeActiveShared(st, did, active) ==
    [d \in (DOMAIN st) \cup {did} |-> [active |-> active]]

\* the state object after the synchronous body of changeActive(user, active)
ChangeActiveState(st, did, active) ==
    [d \in (DOMAIN st) \cup {did} |->
        IF d = did THEN [active |-> active] ELSE st[d]]

\* changeActive triggering the Run output event instead of Refresh
RunNull == [type |-> "Run", data |-> "null"]

\* the event changeActive triggers, line 126
RefreshNull == [type |-> "Refresh", data |-> "null"]
RunState == [type |-> "Run", data |-> "state"]
RefreshState == [type |-> "Refresh", data |-> "state"]

\* a setData call: the await it is suspended at, its user, the error it
\* raised, the validators it has run, the id generateId returned, the DID it
\* created, the events it triggered, whether it has run changeActive(false)
\* and how often changeActive(true), whether another party has called
\* changeActive(user, false) while it was in flight ("busy": before its
\* own changeActive(true), "late": after it), whether its pending schema
\* lookup was
\* issued while the repository had no schema, the id its DID message was
\* given, and the results of the validators it has run
NewCall == [pc |-> "idle", user |-> NoDid, err |-> "", vIdx |-> 0,
            id |-> "", did |-> 0, events |-> <<>>, marked |-> FALSE,
            restores |-> 0, miss |-> FALSE, messageId |-> 0,
            verdicts |-> <<>>, deactivated |-> "no"]

\* the id the ledger gives to the message that creates DID d
DidMessageId(d) == 100 + d

\* didObject.getPrivateKeyString() of DID d, line 311
PrivateKey(d) == <<"key", d>>

\* wallet.getKey(walletToken, KeyType.KEY, d): the keys stored for d in
\* the wallet of this user
WalletGetKey(token, d) ==
    {e.key : e \in {k \in walletKeys : k.token = token /\ k.did = d}}

\* the Request block after construction, line 50, with its options and
\* validator children as configured by the policy
RequestBlock(options, repo) ==
    /\ state = <<>>
    /\ schema = FALSE
    /\ repoSchema = repo
    /\ reqOptions = options
    /\ call = [c \in Calls |-> NewCall]
    /\ didSeq = 0
    /\ didMessages = {}
    /\ didRecords = {}
    /\ walletKeys = {}

InitRequest ==
    \E options \in [idType : IdTypes, validators : 0..NumValidators],
       repo \in BOOLEAN : RequestBlock(options, repo)


\* a catch block that logs and re-throws without changeActive(user, true)
CatchNoRestore(c, msg) ==
    /\ UNCHANGED state
    /\ call' = [call EXCEPT ![c].pc = "rethrow", ![c].err = msg]

\* the catch block of setData (lines 284-288) up to its await:
\* changeActive(user, true) has run, the error is not yet re-thrown
Catch(c, msg) ==
    /\ state' = ChangeActiveState(state, call[c].user, TRUE)
    /\ call' = [call EXCEPT ![c].pc = "rethrow",
                            ![c].err = msg,
                            ![c].restores = @ + 1,
                            ![c].events = Append(@, RefreshNull)]

\* a step of call c that moves to the next await and changes nothing else
Goto(c, next) == call' = [call EXCEPT ![c].pc = next]

\* setData entry, lines 213-229: the did check, the gate and the
\* synchronous body of changeActive(user, false)
SetDataEnter(c, u) ==
    /\ call[c].pc = "idle"
    /\ IF u = NoDid
       THEN /\ call' = [call EXCEPT ![c].pc = "raised", ![c].user = u,
                                    ![c].err = "User have no any did"]
            /\ UNCHANGED state
       ELSE IF ~GetActive(state, u)
       THEN /\ call' = [call EXCEPT ![c].pc = "raised", ![c].user = u,
                                    ![c].err = "Block not available"]
            /\ state' = GetActiveState(state, u)
       ELSE /\ call' = [call EXCEPT ![c].pc = "getKey", ![c].user = u,
                                    ![c].marked = TRUE,
                                    ![c].events = Append(@, RefreshNull)]
            /\ state' = ChangeActiveState(GetActiveState(state, u), u, FALSE)
    /\ UNCHANGED <<schema, repoSchema, reqOptions, didSeq, didMessages,
                   didRecords, walletKeys>>
    /\ UNCHANGED mintVars
    /\ UNCHANGED auxVars

\* wallet.getKey resolves or rejects, line 229; getRelationships is issued
GetKeyDone(c) ==
    /\ call[c].pc = "getKey"
    /\ \/ Goto(c, "getRelationships") /\ UNCHANGED state
       \/ Catch(c, "wallet error")
    /\ UNCHANGED <<schema, repoSchema, reqOptions, didSeq, didMessages,
                   didRecords, walletKeys>>
    /\ UNCHANGED mintVars
    /\ UNCHANGED auxVars

\* getRelationships resolves or rejects, lines 194-202 and 232; getSchema
\* is called and reads this.schema synchronously, lines 150-156
GetRelationshipsDone(c) ==
    /\ call[c].pc = "getRelationships"
    /\ \/ /\ IF schema
             THEN Goto(c, "getSchema")
             ELSE call' = [call EXCEPT ![c].pc = "findSchema",
                                       ![c].miss = ~repoSchema]
          /\ UNCHANGED state
       \/ Catch(c, "Invalid relationships")
    /\ UNCHANGED <<schema, repoSchema, reqOptions, didSeq, didMessages,
                   didRecords, walletKeys>>
    /\ UNCHANGED mintVars
    /\ UNCHANGED auxVars

\* findOne of getSchema resolves, lines 153-160, with the schema if the
\* repository has it by now, or with nothing if the repository did not
\* have it when the lookup was issued: the result is assigned to
\* this.schema in either case
FindSchemaDone(c) ==
    /\ call[c].pc = "findSchema"
    /\ \/ /\ repoSchema
          /\ schema' = TRUE
          /\ call' = [call EXCEPT ![c].pc = "getSchema", ![c].miss = FALSE]
          /\ UNCHANGED state
       \/ /\ call[c].miss
          /\ schema' = FALSE
          /\ state' = ChangeActiveState(state, call[c].user, TRUE)
          /\ call' = [call EXCEPT ![c].pc = "rethrow",
                                  ![c].miss = FALSE,
                                  ![c].err = "Waiting for schema",
                                  ![c].restores = @ + 1,
                                  ![c].events = Append(@, RefreshNull)]
    /\ UNCHANGED <<repoSchema, reqOptions, didSeq, didMessages,
                   didRecords, walletKeys>>
    /\ UNCHANGED mintVars
    /\ UNCHANGED auxVars

\* the schema is published to the repository by the environment
LoadSchema ==
    /\ ~repoSchema
    /\ repoSchema' = TRUE
    /\ UNCHANGED <<state, schema, reqOptions, call, didSeq, didMessages,
                   didRecords, walletKeys>>
    /\ UNCHANGED mintVars
    /\ UNCHANGED auxVars

\* await getSchema() resumes, line 238; generateId is called, lines 300-338:
\* UUID, OWNER and no id type return at once, DID awaits getTopic
GetSchemaDone(c) ==
    /\ call[c].pc = "getSchema"
    /\ CASE reqOptions.idType = "UUID" ->
              call' = [call EXCEPT ![c].pc = "generateId", ![c].id = "uuid"]
         [] reqOptions.idType = "DID" -> Goto(c, "getTopic")
         [] reqOptions.idType = "OWNER" ->
              call' = [call EXCEPT ![c].pc = "generateId",
                                   ![c].id = call[c].user]
         [] OTHER -> Goto(c, "generateId")
    /\ UNCHANGED <<state, schema, repoSchema, reqOptions, didSeq,
                   didMessages, didRecords, walletKeys>>
    /\ UNCHANGED mintVars
    /\ UNCHANGED auxVars

\* generateId, DID: getTopic resolves, the DID document is created and its
\* message sent, lines 307-320
GetTopicDone(c) ==
    /\ call[c].pc = "getTopic"
    /\ \/ /\ call' = [call EXCEPT ![c].pc = "sendMessage",
                                  ![c].did = didSeq + 1]
          /\ didSeq' = didSeq + 1
          /\ UNCHANGED state
       \/ Catch(c, "topic error") /\ UNCHANGED didSeq
    /\ UNCHANGED <<schema, repoSchema, reqOptions, didMessages,
                   didRecords, walletKeys>>
    /\ UNCHANGED mintVars
    /\ UNCHANGED auxVars

\* generateId, DID: sendMessage resolves, the record is created and its
\* save issued, lines 318-330
SendMessageDone(c) ==
    /\ call[c].pc = "sendMessage"
    /\ \/ /\ call' = [call EXCEPT
                          ![c].pc = "save",
                          ![c].messageId = DidMessageId(call[c].did)]
          /\ didMessages' = didMessages
                 \cup {[did |-> call[c].did,
                        id |-> DidMessageId(call[c].did)]}
          /\ UNCHANGED state
       \/ Catch(c, "submission failed") /\ UNCHANGED didMessages
    /\ UNCHANGED <<schema, repoSchema, reqOptions, didSeq,
                   didRecords, walletKeys>>
    /\ UNCHANGED mintVars
    /\ UNCHANGED auxVars

\* save of line 330 not awaited: wallet.setKey is issued while the record
\* is not yet persisted
SaveNotAwaited(c) ==
    /\ call[c].pc = "save"
    /\ Goto(c, "setKey")
    /\ UNCHANGED <<state, schema, repoSchema, reqOptions, didSeq,
                   didMessages, didRecords, walletKeys>>
    /\ UNCHANGED mintVars
    /\ UNCHANGED auxVars

\* generateId, DID: save resolves, wallet.setKey is issued, lines 322-332
SaveDone(c) ==
    /\ call[c].pc = "save"
    /\ \/ /\ Goto(c, "setKey")
          /\ didRecords' = didRecords
                 \cup {[did |-> call[c].did,
                        messageId |-> call[c].messageId]}
          /\ UNCHANGED state
       \/ Catch(c, "save failed") /\ UNCHANGED didRecords
    /\ UNCHANGED <<schema, repoSchema, reqOptions, didSeq,
                   didMessages, walletKeys>>
    /\ UNCHANGED mintVars
    /\ UNCHANGED auxVars

\* generateId, DID: setKey resolves and generateId returns the did,
\* lines 332-333
SetKeyDone(c) ==
    /\ call[c].pc = "setKey"
    /\ \/ /\ call' = [call EXCEPT ![c].pc = "generateId", ![c].id = "newdid"]
          /\ walletKeys' = walletKeys
                 \cup {[token |-> call[c].user, did |-> call[c].did,
                        key |-> PrivateKey(call[c].did)]}
          /\ UNCHANGED state
       \/ Catch(c, "wallet error") /\ UNCHANGED walletKeys
    /\ UNCHANGED <<schema, repoSchema, reqOptions, didSeq,
                   didMessages, didRecords>>
    /\ UNCHANGED mintVars
    /\ UNCHANGED auxVars

\* await generateId resumes, lines 240-253; verifySubject is issued
GenerateIdDone(c) ==
    /\ call[c].pc = "generateId"
    /\ Goto(c, "verifySubject")
    /\ UNCHANGED <<state, schema, repoSchema, reqOptions, didSeq,
                   didMessages, didRecords, walletKeys>>
    /\ UNCHANGED mintVars
    /\ UNCHANGED auxVars

\* verifySubject resolves, with a catch that undoes generateId: on a
\* rejection the record and the key of the call's DID are deleted
VerifySubjectDoneRollback(c) ==
    /\ call[c].pc = "verifySubject"
    /\ \/ /\ Goto(c, "createVC")
          /\ UNCHANGED <<state, didRecords, walletKeys>>
       \/ /\ Catch(c, "subject invalid")
          /\ didRecords' = {r \in didRecords : r.did # call[c].did}
          /\ walletKeys' = {k \in walletKeys : k.did # call[c].did}
    /\ UNCHANGED <<schema, repoSchema, reqOptions, didSeq, didMessages>>
    /\ UNCHANGED mintVars
    /\ UNCHANGED auxVars

\* verifySubject resolves, lines 253-258; createVC is issued
VerifySubjectDone(c) ==
    /\ call[c].pc = "verifySubject"
    /\ \/ Goto(c, "createVC") /\ UNCHANGED state
       \/ Catch(c, "subject invalid")
    /\ UNCHANGED <<schema, repoSchema, reqOptions, didSeq, didMessages,
                   didRecords, walletKeys>>
    /\ UNCHANGED mintVars
    /\ UNCHANGED auxVars

\* createVC resolves, lines 258-276; validateDocuments starts
CreateVCDone(c) ==
    /\ call[c].pc = "createVC"
    /\ \/ Goto(c, "validate") /\ UNCHANGED state
       \/ Catch(c, "createVC failed")
    /\ UNCHANGED <<schema, repoSchema, reqOptions, didSeq, didMessages,
                   didRecords, walletKeys>>
    /\ UNCHANGED mintVars
    /\ UNCHANGED auxVars

\* validateDocuments without the return of lines 97-99: the result of the
\* validator is noted and the loop goes on to the next child
ValidatorRunAll(c) ==
    /\ call[c].pc = "validate"
    /\ call[c].vIdx < reqOptions.validators
    /\ \E valid \in BOOLEAN :
          call' = [call EXCEPT
                     ![c].vIdx = @ + 1,
                     ![c].verdicts = Append(@, [child |-> call[c].vIdx + 1,
                                                valid |-> valid])]
    /\ UNCHANGED <<state, schema, repoSchema, reqOptions, didSeq,
                   didMessages, didRecords, walletKeys>>
    /\ UNCHANGED mintVars
    /\ UNCHANGED auxVars

\* validateDocuments, lines 84-104: the next validator child runs; the
\* first rejection makes setData throw 'Invalid document', lines 276-279
ValidatorRun(c) ==
    /\ call[c].pc = "validate"
    /\ call[c].vIdx < reqOptions.validators
    /\ \/ /\ call' = [call EXCEPT ![c].vIdx = @ + 1,
                                  ![c].verdicts =
                                      Append(@, [child |-> call[c].vIdx + 1,
                                                 valid |-> TRUE])]
          /\ UNCHANGED state
       \/ /\ state' = ChangeActiveState(state, call[c].user, TRUE)
          /\ call' = [call EXCEPT ![c].pc = "rethrow",
                                  ![c].vIdx = @ + 1,
                                  ![c].verdicts =
                                      Append(@, [child |-> call[c].vIdx + 1,
                                                 valid |-> FALSE]),
                                  ![c].err = "Invalid document",
                                  ![c].restores = @ + 1,
                                  ![c].events = Append(@, RefreshNull)]
    /\ UNCHANGED <<schema, repoSchema, reqOptions, didSeq, didMessages,
                   didRecords, walletKeys>>
    /\ UNCHANGED mintVars
    /\ UNCHANGED auxVars

\* every validator accepted, without the changeActive(user, true) of
\* line 281: the call goes on to its events
RestoreSkipped(c) ==
    /\ call[c].pc = "validate"
    /\ call[c].vIdx = reqOptions.validators
    /\ call' = [call EXCEPT ![c].pc = "restore"]
    /\ UNCHANGED <<state, schema, repoSchema, reqOptions, didSeq,
                   didMessages, didRecords, walletKeys>>
    /\ UNCHANGED mintVars
    /\ UNCHANGED auxVars

\* every validator accepted: changeActive(user, true), line 281
Restore(c) ==
    /\ call[c].pc = "validate"
    /\ call[c].vIdx = reqOptions.validators
    /\ state' = ChangeActiveState(state, call[c].user, TRUE)
    /\ call' = [call EXCEPT ![c].pc = "restore",
                            ![c].restores = @ + 1,
                            ![c].events = Append(@, RefreshNull)]
    /\ UNCHANGED <<schema, repoSchema, reqOptions, didSeq, didMessages,
                   didRecords, walletKeys>>
    /\ UNCHANGED mintVars
    /\ UNCHANGED auxVars

\* the await of line 281 resumes with lines 282 and 283 exchanged: Refresh
\* is triggered before Run
EmitRefreshFirst(c) ==
    /\ call[c].pc = "restore"
    /\ call' = [call EXCEPT ![c].pc = "returned",
                            ![c].events = @ \o <<RefreshState, RunState>>]
    /\ UNCHANGED <<state, schema, repoSchema, reqOptions, didSeq,
                   didMessages, didRecords, walletKeys>>
    /\ UNCHANGED mintVars
    /\ UNCHANGED auxVars

\* the await of line 281 resumes: Run, Refresh, return {}, lines 282-290
Emit(c) ==
    /\ call[c].pc = "restore"
    /\ call' = [call EXCEPT ![c].pc = "returned",
                            ![c].events = @ \o <<RunState, RefreshState>>]
    /\ UNCHANGED <<state, schema, repoSchema, reqOptions, didSeq,
                   didMessages, didRecords, walletKeys>>
    /\ UNCHANGED mintVars
    /\ UNCHANGED auxVars

\* the await of line 286 resumes: the error is re-thrown, line 287
Rethrow(c) ==
    /\ call[c].pc = "rethrow"
    /\ Goto(c, "raised")
    /\ UNCHANGED <<state, schema, repoSchema, reqOptions, didSeq,
                   didMessages, didRecords, walletKeys>>
    /\ UNCHANGED mintVars
    /\ UNCHANGED auxVars

\* changeActive(user, active) called from outside setData, lines 111-127
ChangeActive(u, active) ==
    /\ state' = ChangeActiveState(state, u, active)
    /\ UNCHANGED <<schema, repoSchema, reqOptions, call, didSeq,
                   didMessages, didRecords, walletKeys>>
    /\ UNCHANGED mintVars
    /\ UNCHANGED auxVars

\* changeActive(user, false) called by another party for the user of call
\* c while that call is between the gate and its return or throw, lines
\* 111-127
DeactivateInFlight(c) ==
    /\ call[c].pc \notin {"idle", "returned", "raised"}
    /\ state' = ChangeActiveState(state, call[c].user, FALSE)
    /\ call' = [call EXCEPT
                   ![c].deactivated =
                       IF call[c].pc \in {"restore", "rethrow"}
                       THEN "late" ELSE "busy"]
    /\ UNCHANGED <<schema, repoSchema, reqOptions, didSeq,
                   didMessages, didRecords, walletKeys>>
    /\ UNCHANGED mintVars
    /\ UNCHANGED auxVars

\* getActive(user) called from outside setData, lines 133-145: a missing
\* entry is created, the flag is returned
GetActiveCall(u) ==
    /\ state' = GetActiveState(state, u)
    /\ observed' = <<u, GetActive(state, u)>>
    /\ UNCHANGED <<schema, repoSchema, reqOptions, call, didSeq,
                   didMessages, didRecords, walletKeys>>
    /\ UNCHANGED mintVars
    /\ UNCHANGED <<valOptions, resultsContainer, validated>>

\* getData(user), lines 169-187: getSchema resolves or throws 'Waiting for
\* schema', then getSources, then the data with getActive(user) is returned
GetData(u) ==
    /\ IF schema \/ repoSchema
       THEN /\ schema' = TRUE
            /\ state' = GetActiveState(state, u)
            /\ observed' = <<u, GetActive(state, u)>>
       ELSE /\ schema' = FALSE
            /\ UNCHANGED <<state, observed>>
    /\ UNCHANGED <<repoSchema, reqOptions, call, didSeq, didMessages,
                   didRecords, walletKeys>>
    /\ UNCHANGED mintVars
    /\ UNCHANGED <<valOptions, resultsContainer, validated>>

SetDataStep(c) ==
    \/ GetKeyDone(c)
    \/ GetRelationshipsDone(c)
    \/ FindSchemaDone(c)
    \/ GetSchemaDone(c)
    \/ GetTopicDone(c)
    \/ SendMessageDone(c)
    \/ SaveDone(c)
    \/ SetKeyDone(c)
    \/ GenerateIdDone(c)
    \/ VerifySubjectDone(c)
    \/ CreateVCDone(c)
    \/ ValidatorRun(c)
    \/ Restore(c)
    \/ Emit(c)
    \/ Rethrow(c)

NextRequest ==
    \/ \E c \in Calls, u \in Users : SetDataEnter(c, u)
    \/ \E c \in Calls : SetDataStep(c)
    \/ LoadSchema

\* ------------------------------------------------------------------------
\* Mint block
\* ------------------------------------------------------------------------

\* JavaScript undefined, and a document without an accounts map
UNDEF == "undefined"
NoAccounts == "no-accounts"
\* doc.accounts[field]: an empty string or an account id
AccountValues == {"", "X", "Y"}
\* message ids: 0 is an absent (falsy) id
NoId == 0
Amounts == {"NaN", "Infinity", "5"}

Falsy(v) == v \in {UNDEF, ""}

\* the input document at position i of event.data.data
DocsAt(i) == [signature : {"VERIFIED", "INVALID"},
              messageId : {NoId, i},
              accounts : AccountValues \cup {NoAccounts}]

RECURSIVE DocSeqsOfLen(_)
DocSeqsOfLen(n) ==
    IF n = 0 THEN {<<>>}
    ELSE {Append(ds, d) : ds \in DocSeqsOfLen(n - 1), d \in DocsAt(n)}

\* the inputs of runAction: up to MaxDocs documents
DocSeqs == UNION {DocSeqsOfLen(n) : n \in 0..MaxDocs}

\* lines 226-229: the message ids pushed to vsMessages by the loop
VsMessages(ds) ==
    SelectSeq([i \in 1..Len(ds) |-> ds[i].messageId],
              LAMBDA m : m # NoId)

\* lines 233-236: the values pushed to accounts by the loop
AccountsOf(ds) ==
    SelectSeq([i \in 1..Len(ds) |-> ds[i].accounts],
              LAMBDA a : a # NoAccounts)

\* accounts[0], line 239
FirstAccounts(accounts) ==
    IF accounts = <<>> THEN UNDEF ELSE accounts[1]

\* Array.prototype.find with the predicate a !== firstAccounts, line 240:
\* the first such element, or undefined
FindOther(accounts, first) ==
    IF \E i \in 1..Len(accounts) : accounts[i] # first
    THEN accounts[CHOOSE i \in 1..Len(accounts) :
                      /\ accounts[i] # first
                      /\ \A j \in 1..(i - 1) : accounts[j] = first]
    ELSE UNDEF

\* the condition of the if of line 240: the found element is truthy
MoreThanOneAccount(accounts) ==
    ~Falsy(FindOther(accounts, FirstAccounts(accounts)))

\* lines 245-247
TargetAccountId(accounts, ownerAccount) ==
    IF mintOptions.accountId THEN FirstAccounts(accounts) ELSE ownerAccount

\* line 119
IsNaN(amount) == amount = "NaN"
IsFinite(amount) == amount \notin {"NaN", "Infinity"}

\* the check of line 119 without its Number.isFinite half
InvalidAmountNaNOnly(amount) == IsNaN(amount)

InvalidAmount(amount) == IsNaN(amount) \/ ~IsFinite(amount)

\* the id the ledger assigns to the next message
NextMessageId == 10 + Len(ledger) + 1

\* the signature check of line 222 applied to docs[0] only
FirstSignatureInvalid(ds) == Len(ds) > 0 /\ ds[1].signature = "INVALID"

\* lines 220-225: the loop meets a document whose signature is INVALID
HasInvalidSignature(ds) == \E i \in 1..Len(ds) : ds[i].signature = "INVALID"

\* the locals of runAction and mintProcessing: accounts, relationships
\* (the vsMessages array), targetAccountId, amount, whether mintVC and vp
\* exist, the VC message id known when vp was created, whether vpMessage
\* exists, the ids the two submissions returned, whether the recipient
\* has been resolved, and the did of docOwner
NewLocal == [accounts |-> <<>>, relationships |-> <<>>, target |-> UNDEF,
             amount |-> "", mintVC |-> FALSE, vp |-> FALSE,
             vpBuiltVcId |-> NoId, vpMessage |-> FALSE,
             vcMsgId |-> NoId, vpMsgId |-> NoId, resolved |-> FALSE,
             owner |-> NoDid]

\* event.user: the actor carried by the incoming Run event, line 195
EventUser == "did:a1"

\* the users docs[0].owner may name, line 210
DocOwners == Actors

\* the Mint block with its options, before runAction is invoked
MintBlock(options) ==
    /\ mintOptions = options
    /\ mpc = "idle"
    /\ docs = <<>>
    /\ local = NewLocal
    /\ warnings = 0
    /\ ledger = <<>>
    /\ vcRecords = <<>>
    /\ vpRecords = <<>>
    /\ minted = <<>>
    /\ mEvents = <<>>
    /\ merr = ""

InitMint == \E options \in [accountId : BOOLEAN] : MintBlock(options)

\* runAction throws
MFail(msg) ==
    /\ mpc' = "failed"
    /\ merr' = msg

\* the condition of line 206, !docs.length && docs[0]: docs[0] is
\* undefined, hence falsy, when the array is empty
BadVC(ds) == Len(ds) = 0 /\ Len(ds) >= 1

\* runAction is invoked with a Run event, lines 195-200
RunAction(ds) ==
    /\ mpc = "idle"
    /\ mpc' = "findToken"
    /\ docs' = ds
    /\ UNCHANGED <<mintOptions, local, warnings, ledger, vcRecords,
                   vpRecords, minted, mEvents, merr>>
    /\ UNCHANGED reqVars
    /\ UNCHANGED auxVars

\* the token lookup resolves, lines 198-210
FindTokenDone ==
    /\ mpc = "findToken"
    /\ \/ MFail("Bad token id")
       \/ IF BadVC(docs)
          THEN MFail("Bad VC")
          ELSE IF Len(docs) = 0
          THEN MFail("TypeError")
          ELSE mpc' = "getUserById" /\ UNCHANGED merr
    /\ UNCHANGED <<mintOptions, docs, local, warnings, ledger, vcRecords,
                   vpRecords, minted, mEvents>>
    /\ UNCHANGED reqVars
    /\ UNCHANGED auxVars

\* getUserById resolves with docOwner, lines 210-253: the loop over the
\* documents, the account mismatch warning and the recipient
GetUserByIdDone ==
    /\ mpc = "getUserById"
    /\ \/ MFail("Bad User DID") /\ UNCHANGED <<local, warnings>>
       \/ \E ownerAccount \in {"", "O"}, owner \in DocOwners :
            IF HasInvalidSignature(docs)
            THEN MFail("Invalid VC proof") /\ UNCHANGED <<local, warnings>>
            ELSE LET accounts == AccountsOf(docs)
                     target == TargetAccountId(accounts, ownerAccount)
                 IN /\ warnings' = IF MoreThanOneAccount(accounts)
                                   THEN warnings + 1 ELSE warnings
                    /\ local' = [local EXCEPT
                                   !.accounts = accounts,
                                   !.relationships = VsMessages(docs),
                                   !.target = target,
                                   !.resolved = TRUE,
                                   !.owner = owner]
                    /\ IF Falsy(target)
                       THEN MFail("Token recipient not set")
                       ELSE mpc' = "getHederaAccount" /\ UNCHANGED merr
    /\ UNCHANGED <<mintOptions, docs, ledger, vcRecords, vpRecords, minted,
                   mEvents>>
    /\ UNCHANGED reqVars
    /\ UNCHANGED auxVars

\* getHederaAccount resolves, line 253; mintProcessing starts, lines 114-124,
\* and createMintVC awaits the schema, line 61
GetHederaAccountDone ==
    /\ mpc = "getHederaAccount"
    /\ \/ MFail("root account error") /\ UNCHANGED local
       \/ \E amount \in Amounts :
            /\ local' = [local EXCEPT !.amount = amount]
            /\ IF InvalidAmount(amount)
               THEN MFail("Invalid token value")
               ELSE mpc' = "getSchema" /\ UNCHANGED merr
    /\ UNCHANGED <<mintOptions, docs, warnings, ledger, vcRecords,
                   vpRecords, minted, mEvents>>
    /\ UNCHANGED reqVars
    /\ UNCHANGED auxVars

\* createMintVC: the schema lookup resolves, lines 61-69
MintSchemaDone ==
    /\ mpc = "getSchema"
    /\ \/ MFail("schema error")
       \/ mpc' = "createVC" /\ UNCHANGED merr
    /\ UNCHANGED <<mintOptions, docs, local, warnings, ledger, vcRecords,
                   vpRecords, minted, mEvents>>
    /\ UNCHANGED reqVars
    /\ UNCHANGED auxVars

\* createMintVC: createVC resolves, lines 69-74 and 124-126; createVP is
\* called
CreateMintVCDone ==
    /\ mpc = "createVC"
    /\ \/ MFail("createVC failed") /\ UNCHANGED local
       \/ /\ local' = [local EXCEPT !.mintVC = TRUE]
          /\ mpc' = "createVP"
          /\ UNCHANGED merr
    /\ UNCHANGED <<mintOptions, docs, warnings, ledger, vcRecords,
                   vpRecords, minted, mEvents>>
    /\ UNCHANGED reqVars
    /\ UNCHANGED auxVars

\* createVP resolves, lines 84-93 and 126-135; the topic is looked up
CreateVPDone ==
    /\ mpc = "createVP"
    /\ \/ MFail("createVP failed") /\ UNCHANGED local
       \/ /\ local' = [local EXCEPT !.vp = TRUE,
                                    !.vpBuiltVcId = local.vcMsgId]
          /\ mpc' = "getTopic"
          /\ UNCHANGED merr
    /\ UNCHANGED <<mintOptions, docs, warnings, ledger, vcRecords,
                   vpRecords, minted, mEvents>>
    /\ UNCHANGED reqVars
    /\ UNCHANGED auxVars

\* the topic lookup resolves, lines 131-143; the VC message is built and
\* sent
MintTopicDone ==
    /\ mpc = "getTopic"
    /\ \/ MFail("topic error")
       \/ mpc' = "sendVC" /\ UNCHANGED merr
    /\ UNCHANGED <<mintOptions, docs, local, warnings, ledger, vcRecords,
                   vpRecords, minted, mEvents>>
    /\ UNCHANGED reqVars
    /\ UNCHANGED auxVars

\* sendMessage of line 141 not awaited: mintProcessing goes on with a
\* pending submission whose id is not known
SendVCNotAwaited ==
    /\ mpc = "sendVC"
    /\ mpc' = "updateVCRecord"
    /\ UNCHANGED <<mintOptions, docs, local, warnings, ledger, vcRecords,
                   vpRecords, minted, mEvents, merr>>
    /\ UNCHANGED reqVars
    /\ UNCHANGED auxVars

\* the VC submission resolves, lines 141-159; updateVCRecord is called
SendVCDone ==
    /\ mpc = "sendVC"
    /\ \/ MFail("submission failed") /\ UNCHANGED <<local, ledger>>
       \/ /\ ledger' = Append(ledger, [kind |-> "VC",
                                       id |-> NextMessageId,
                                       relationships |-> local.relationships])
          /\ local' = [local EXCEPT !.vcMsgId = NextMessageId]
          /\ mpc' = "updateVCRecord"
          /\ UNCHANGED merr
    /\ UNCHANGED <<mintOptions, docs, warnings, vcRecords, vpRecords,
                   minted, mEvents>>
    /\ UNCHANGED reqVars
    /\ UNCHANGED auxVars

\* Array.prototype.concat, whose result is dropped, in place of push
ConcatMessageId(relationships, id) == relationships

\* relationships.push(vcMessageResult.getId()), line 161
PushMessageId(relationships, id) == Append(relationships, id)

\* updateVCRecord resolves, lines 145-168; the VC message id is pushed to
\* relationships, the VP message is built and sent
UpdateVCRecordDone ==
    /\ mpc = "updateVCRecord"
    /\ \/ MFail("save failed") /\ UNCHANGED <<local, vcRecords>>
       \/ /\ vcRecords' = Append(vcRecords,
                                 [type |-> "MINT",
                                  messageId |-> local.vcMsgId,
                                  relationships |-> local.relationships])
          /\ local' = [local EXCEPT
                         !.relationships = PushMessageId(@, local.vcMsgId),
                         !.vpMessage = TRUE]
          /\ mpc' = "sendVP"
          /\ UNCHANGED merr
    /\ UNCHANGED <<mintOptions, docs, warnings, ledger, vpRecords, minted,
                   mEvents>>
    /\ UNCHANGED reqVars
    /\ UNCHANGED auxVars

\* the VP submission resolves, with a compensation on failure: the VC
\* record persisted in phase 1 is deleted
SendVPDoneRollback ==
    /\ mpc = "sendVP"
    /\ \/ /\ MFail("submission failed")
          /\ vcRecords' = <<>>
          /\ UNCHANGED <<local, ledger>>
       \/ /\ ledger' = Append(ledger, [kind |-> "VP",
                                       id |-> NextMessageId,
                                       relationships |-> local.relationships])
          /\ local' = [local EXCEPT !.vpMsgId = NextMessageId]
          /\ mpc' = "saveVP"
          /\ UNCHANGED <<merr, vcRecords>>
    /\ UNCHANGED <<mintOptions, docs, warnings, vpRecords, minted, mEvents>>
    /\ UNCHANGED reqVars
    /\ UNCHANGED auxVars

\* the VP submission resolves, lines 166-179; saveVP is called
SendVPDone ==
    /\ mpc = "sendVP"
    /\ \/ MFail("submission failed") /\ UNCHANGED <<local, ledger>>
       \/ /\ ledger' = Append(ledger, [kind |-> "VP",
                                       id |-> NextMessageId,
                                       relationships |-> local.relationships])
          /\ local' = [local EXCEPT !.vpMsgId = NextMessageId]
          /\ mpc' = "saveVP"
          /\ UNCHANGED merr
    /\ UNCHANGED <<mintOptions, docs, warnings, vcRecords, vpRecords,
                   minted, mEvents>>
    /\ UNCHANGED reqVars
    /\ UNCHANGED auxVars

\* the record saveVP is given, lines 170-179
VPRecord(messageId) == [type |-> "MINT", messageId |-> messageId]

\* saveVP of line 170 not awaited: PolicyUtils.mint is called while the
\* record is not yet persisted
SaveVPNotAwaited ==
    /\ mpc = "saveVP"
    /\ mpc' = "mint"
    /\ UNCHANGED <<mintOptions, docs, local, warnings, ledger, vcRecords,
                   vpRecords, minted, mEvents, merr>>
    /\ UNCHANGED reqVars
    /\ UNCHANGED auxVars

\* saveVP resolves, lines 170-181; PolicyUtils.mint is called
SaveVPDone ==
    /\ mpc = "saveVP"
    /\ \/ MFail("save failed") /\ UNCHANGED vpRecords
       \/ /\ vpRecords' = Append(vpRecords, VPRecord(local.vpMsgId))
          /\ mpc' = "mint"
          /\ UNCHANGED merr
    /\ UNCHANGED <<mintOptions, docs, local, warnings, ledger, vcRecords,
                   minted, mEvents>>
    /\ UNCHANGED reqVars
    /\ UNCHANGED auxVars

\* PolicyUtils.mint of line 181 not awaited: mintProcessing returns while
\* the mint is pending
MintNotAwaited ==
    /\ mpc = "mint"
    /\ mpc' = "mintProcessing"
    /\ UNCHANGED <<mintOptions, docs, local, warnings, ledger, vcRecords,
                   vpRecords, minted, mEvents, merr>>
    /\ UNCHANGED reqVars
    /\ UNCHANGED auxVars

\* PolicyUtils.mint resolves and mintProcessing returns, lines 181-183
MintDone ==
    /\ mpc = "mint"
    /\ \/ MFail("mint failed") /\ UNCHANGED minted
       \/ /\ minted' = Append(minted, [target |-> local.target,
                                       amount |-> local.amount,
                                       memo |-> local.vpMsgId])
          /\ mpc' = "mintProcessing"
          /\ UNCHANGED merr
    /\ UNCHANGED <<mintOptions, docs, local, warnings, ledger, vcRecords,
                   vpRecords, mEvents>>
    /\ UNCHANGED reqVars
    /\ UNCHANGED auxVars

\* the two triggerEvents calls given event.user in place of docOwner
OutputEventsEventUser(user) == <<[type |-> "Run", user |-> EventUser],
                                 [type |-> "Refresh", user |-> EventUser]>>

\* the two triggerEvents calls of lines 256-257, with their user argument
OutputEvents(user) == <<[type |-> "Run", user |-> user],
                        [type |-> "Refresh", user |-> user]>>

\* the await of line 254 resumes: Run, then Refresh, lines 256-257
MintEmit ==
    /\ mpc = "mintProcessing"
    /\ mEvents' = mEvents \o OutputEvents(local.owner)
    /\ mpc' = "done"
    /\ UNCHANGED <<mintOptions, docs, local, warnings, ledger, vcRecords,
                   vpRecords, minted, merr>>
    /\ UNCHANGED reqVars
    /\ UNCHANGED auxVars

NextMint ==
    \/ mpc = "idle" /\ \E ds \in DocSeqs : RunAction(ds)
    \/ FindTokenDone
    \/ GetUserByIdDone
    \/ GetHederaAccountDone
    \/ MintSchemaDone
    \/ CreateMintVCDone
    \/ CreateVPDone
    \/ MintTopicDone
    \/ SendVCDone
    \/ UpdateVCRecordDone
    \/ SendVPDone
    \/ SaveVPDone
    \/ MintDone
    \/ MintEmit

\* ------------------------------------------------------------------------
\* Validation of the block options
\* ------------------------------------------------------------------------

MintUuid == "uuid-mint"
RequestUuid == "uuid-request"
BlockUuids == {MintUuid, RequestUuid}

\* an option that is not set (falsy), set to a value that is not a string,
\* or set to a string
OptionValues == {"unset", "notstring", "string"}

\* the options validate reads: of the Mint block, lines 267-287, and of the
\* Request block, lines 353-373
MintValidateOptions == [tokenId : OptionValues, rule : OptionValues,
                        accountType : {"default", "custom", "other"},
                        accountId : BOOLEAN]
RequestValidateOptions == [schema : OptionValues, presetSchema : BOOLEAN]

\* a repository lookup finds the record, finds nothing, or rejects
Lookups == {"found", "absent", "error"}

Unhandled == "Unhandled exception"

\* resultsContainer.addBlockError(uuid, message), for a list of messages
AddBlockErrors(container, uuid, messages) ==
    [container EXCEPT ![uuid] = @ \o messages]

\* the errors Mint validate records, lines 266-290: the token, rule and
\* account checks, or the catch when the token lookup rejects
MintValidateErrors(o, tokenLookup) ==
    LET token == IF o.tokenId = "unset"
                 THEN <<"Option tokenId does not set">>
                 ELSE IF o.tokenId # "string"
                 THEN <<"Option tokenId must be a string">>
                 ELSE IF tokenLookup = "absent"
                 THEN <<"Token does not exist">>
                 ELSE <<>>
        rule == IF o.rule = "unset"
                THEN <<"Option rule does not set">>
                ELSE IF o.rule # "string"
                THEN <<"Option rule must be a string">>
                ELSE <<>>
        type == IF o.accountType \notin {"default", "custom"}
                THEN <<"Option accountType must be one of default,custom">>
                ELSE <<>>
        id == IF o.accountType = "custom" /\ ~o.accountId
              THEN <<"Option accountId does not set">>
              ELSE <<>>
    IN IF o.tokenId = "string" /\ tokenLookup = "error"
       THEN <<Unhandled>>
       ELSE token \o rule \o type \o id

\* the token lookup of line 271 rejects in Mint validate
MintValidateThrows(o, tokenLookup) ==
    o.tokenId = "string" /\ tokenLookup = "error"

\* the errors Request validate records, lines 351-381: it returns at the
\* first error, and the catch records a rejected lookup
RequestValidateErrors(o, schemaLookup, presetLookup) ==
    IF o.schema = "unset" THEN <<"Option schema does not set">>
    ELSE IF o.schema # "string" THEN <<"Option schema must be a string">>
    ELSE IF schemaLookup = "error" THEN <<Unhandled>>
    ELSE IF schemaLookup = "absent" THEN <<"Schema does not exist">>
    ELSE IF ~o.presetSchema THEN <<>>
    ELSE IF presetLookup = "error" THEN <<Unhandled>>
    ELSE IF presetLookup = "absent" THEN <<"Schema does not exist">>
    ELSE <<>>

\* a lookup of lines 362 or 371 rejects in Request validate
RequestValidateThrows(o, schemaLookup, presetLookup) ==
    /\ o.schema = "string"
    /\ \/ schemaLookup = "error"
       \/ schemaLookup = "found" /\ o.presetSchema /\ presetLookup = "error"

\* the blocks whose validate has completed
ValidatedUuids == {validated[i].uuid : i \in 1..Len(validated)}

\* a policy with a Mint and a Request block, as configured, not validated
Policy(options) ==
    /\ valOptions = options
    /\ resultsContainer = [u \in BlockUuids |-> <<>>]
    /\ validated = <<>>

\* Mint validate without its try and catch: a rejected lookup is raised
\* to the caller
ValidateMintUncaught(tokenLookup) ==
    /\ MintUuid \notin ValidatedUuids
    /\ IF MintValidateThrows(valOptions.mint, tokenLookup)
       THEN /\ validated' = Append(validated, [uuid |-> MintUuid,
                                               outcome |-> "raised"])
            /\ UNCHANGED resultsContainer
       ELSE /\ validated' = Append(validated, [uuid |-> MintUuid,
                                               outcome |-> "returned"])
            /\ resultsContainer' =
                   AddBlockErrors(resultsContainer, MintUuid,
                       MintValidateErrors(valOptions.mint, tokenLookup))
    /\ UNCHANGED <<valOptions, observed>>
    /\ UNCHANGED reqVars
    /\ UNCHANGED mintVars

\* MintBlock.validate, lines 264-291
ValidateMint(tokenLookup) ==
    /\ MintUuid \notin ValidatedUuids
    /\ validated' = Append(validated,
           [uuid |-> MintUuid,
            outcome |-> IF MintValidateThrows(valOptions.mint, tokenLookup)
                        THEN "caught" ELSE "returned"])
    /\ resultsContainer' =
           AddBlockErrors(resultsContainer, MintUuid,
                          MintValidateErrors(valOptions.mint, tokenLookup))
    /\ UNCHANGED <<valOptions, observed>>
    /\ UNCHANGED reqVars
    /\ UNCHANGED mintVars

\* RequestVcDocumentBlock.validate, lines 349-382
ValidateRequest(schemaLookup, presetLookup) ==
    /\ RequestUuid \notin ValidatedUuids
    /\ validated' = Append(validated,
           [uuid |-> RequestUuid,
            outcome |-> IF RequestValidateThrows(valOptions.request,
                                                 schemaLookup, presetLookup)
                        THEN "caught" ELSE "returned"])
    /\ resultsContainer' =
           AddBlockErrors(resultsContainer, RequestUuid,
                          RequestValidateErrors(valOptions.request,
                                                schemaLookup, presetLookup))
    /\ UNCHANGED <<valOptions, observed>>
    /\ UNCHANGED reqVars
    /\ UNCHANGED mintVars

NextValidate ==
    \/ \E tokenLookup \in Lookups : ValidateMint(tokenLookup)
    \/ \E schemaLookup, presetLookup \in Lookups :
          ValidateRequest(schemaLookup, presetLookup)

\* ------------------------------------------------------------------------
\* Specifications
\* ------------------------------------------------------------------------

\* no getActive call has returned, and no policy validation is under way
NoAux ==
    /\ observed = <<>>
    /\ Policy([mint |-> [tokenId |-> "string", rule |-> "string",
                         accountType |-> "default", accountId |-> FALSE],
               request |-> [schema |-> "string", presetSchema |-> FALSE]])

\* the Request block in use, the Mint block never invoked
InitR == InitRequest /\ MintBlock([accountId |-> FALSE]) /\ NoAux

\* the Mint block in use, the Request block never invoked
InitM ==
    /\ InitMint
    /\ RequestBlock([idType |-> "NONE", validators |-> 0], TRUE)
    /\ NoAux

\* the policy validator calls validate of both blocks, in either order
InitV ==
    /\ \E options \in [mint : MintValidateOptions,
                        request : RequestValidateOptions] : Policy(options)
    /\ observed = <<>>
    /\ RequestBlock([idType |-> "NONE", validators |-> 0], TRUE)
    /\ MintBlock([accountId |-> FALSE])

SpecValidate == InitV /\ [][NextValidate]_vars

\* the setData call of actor u, where every actor makes one call
ActorCall(u) == IF u = "did:a1" THEN 1 ELSE 2

\* one setData call of each actor together with changeActive, getActive
\* and getData called for any actor from outside setData
NextActors ==
    \/ \E u \in Actors : SetDataEnter(ActorCall(u), u)
    \/ \E u \in Actors : SetDataStep(ActorCall(u))
    \/ LoadSchema
    \/ \E u \in Actors, active \in BOOLEAN : ChangeActive(u, active)
    \/ \E u \in Actors : GetActiveCall(u)
    \/ \E u \in Actors : GetData(u)

SpecActors == InitR /\ [][NextActors]_vars

SpecRequest == InitR /\ [][NextRequest]_vars

SpecMint == InitM /\ [][NextMint]_vars

\* every setData call is made by one and the same actor (or by a user
\* without did): the calls that contend for one actor's gate
NextOneActor ==
    \/ \E c \in Calls : SetDataEnter(c, "did:a1")
    \/ \E c \in Calls : SetDataEnter(c, NoDid)
    \/ \E c \in Calls : SetDataStep(c)
    \/ LoadSchema

\* every await of a setData call eventually resumes: each external call
\* eventually returns or fails
FairSpecRequest ==
    InitR /\ [][NextOneActor]_vars /\ \A c \in Calls : WF_vars(SetDataStep(c))

\* one setData call on a block that has up to MaxValidators validator
\* children
InitSingleCall ==
    /\ \E options \in [idType : IdTypes, validators : 0..MaxValidators],
          repo \in BOOLEAN : RequestBlock(options, repo)
    /\ MintBlock([accountId |-> FALSE])
    /\ NoAux

NextSingleCall ==
    \/ \E u \in Users : SetDataEnter(1, u)
    \/ SetDataStep(1)
    \/ LoadSchema

SpecSingleCall == InitSingleCall /\ [][NextSingleCall]_vars

\* one setData call, and another party that calls changeActive(user,
\* false) for its user while it is in flight
NextInterleaved ==
    \/ \E u \in Users : SetDataEnter(1, u)
    \/ SetDataStep(1)
    \/ LoadSchema
    \/ DeactivateInFlight(1)

SpecInterleaved == InitR /\ [][NextInterleaved]_vars

\* ------------------------------------------------------------------------
\* Properties of the Request block
\* ------------------------------------------------------------------------

\* the awaits of setData between changeActive(user, false) and the
\* changeActive(user, true) that ends the call
BusyPcs == {"getKey", "getRelationships", "findSchema", "getSchema",
            "getTopic", "sendMessage", "save", "setKey", "generateId",
            "verifySubject", "createVC", "validate"}

\* call c has marked its actor Busy and not yet restored it
InBusySection(c) == call[c].pc \in BusyPcs

\* call c has passed the gate and has not yet returned or raised
PastGate(c) == call[c].pc \in BusyPcs \cup {"restore", "rethrow"}

\* call c is invoked in this step by user u
Invoked(c, u) == call[c].pc = "idle" /\ call'[c].pc # "idle" /\ call'[c].user = u

\* the invocation of c is rejected by the gate and changes no state
Rejected(c) ==
    /\ call'[c].pc = "raised"
    /\ call'[c].err = "Block not available"
    /\ call'[c].events = <<>>
    /\ state' = state

\* C1 as stated: until a call that passed the gate resolves, every other
\* setData of the same actor is rejected with 'Block not available' and
\* changes no state, and at most one call per actor is past the gate
C1Original ==
    /\ [](\A c, d \in Calls :
            (c # d /\ PastGate(c) /\ PastGate(d))
                => call[c].user # call[d].user)
    /\ [][\A c \in Calls, u \in Actors :
            (Invoked(c, u) /\ \E d \in Calls \ {c} :
                                 PastGate(d) /\ call[d].user = u)
                => Rejected(c)]_vars

\* C1 amended: from the moment a call marks its actor Busy until that call
\* restores Active with its final changeActive(user, true), every other
\* setData of the same actor is rejected with 'Block not available' and
\* changes no state, and at most one call per actor is in that section
C1BusyGate ==
    /\ [](\A c, d \in Calls :
            (c # d /\ InBusySection(c) /\ InBusySection(d))
                => call[c].user # call[d].user)
    /\ [][\A c \in Calls, u \in Actors :
            (Invoked(c, u) /\ \E d \in Calls \ {c} :
                                 InBusySection(d) /\ call[d].user = u)
                => Rejected(c)]_vars

\* a call was rejected by the gate while another call of the same actor is
\* still between its two changeActive calls
C1Witness ==
    \E c, d \in Calls :
        /\ c # d
        /\ InBusySection(d)
        /\ call[c].user = call[d].user
        /\ call[c].pc = "raised"
        /\ call[c].err = "Block not available"

\* C2: a call that marked its actor Busy has run changeActive(user, true)
\* before it returns or raises, the actor is Active in the state in which
\* the call leaves its Busy section, an actor is Busy only while a call of
\* that actor is in its Busy section, and, when every external call
\* eventually returns, a Busy actor is eventually Active again
C2NeverStuckBusy ==
    /\ [](\A c \in Calls :
            (call[c].marked /\ ~InBusySection(c)) => call[c].restores >= 1)
    /\ [](\A a \in DOMAIN state :
            ~state[a].active
                => \E c \in Calls : InBusySection(c) /\ call[c].user = a)
    /\ [][\A c \in Calls :
            (InBusySection(c) /\ ~InBusySection(c)')
                => state'[call[c].user].active]_vars
    /\ \A a \in Actors :
          (a \in DOMAIN state /\ ~state[a].active)
              ~> (a \in DOMAIN state /\ state[a].active)

\* a call that had marked its actor Busy has failed and raised, and the
\* actor is Active
C2Witness ==
    \E c \in Calls :
        /\ call[c].marked
        /\ call[c].pc = "raised"
        /\ call[c].err = "subject invalid"
        /\ state[call[c].user].active

\* C8 as stated: a call rejected by a validator restores Active, fails with
\* 'Invalid document' and has triggered no Run and no Refresh event
C8Original ==
    \A c \in Calls :
        call[c].err = "Invalid document"
            => /\ call[c].restores = 1
               /\ call[c].events = <<>>

\* C8 amended: a call rejected by a validator restores Active, fails with
\* 'Invalid document' and has triggered no Run event and no event carrying
\* the document state; the only events of the call are the two data-less
\* Refresh events of its changeActive calls
C8ValidatorRejection ==
    /\ [](\A c \in Calls :
            call[c].err = "Invalid document"
                => /\ call[c].restores = 1
                   /\ call[c].pc \in {"rethrow", "raised"}
                   /\ Len(call[c].events) = 2
                   /\ \A i \in 1..Len(call[c].events) :
                        /\ call[c].events[i].type = "Refresh"
                        /\ call[c].events[i].data = "null")
    /\ [][\A c \in Calls :
            (call[c].err # "Invalid document"
                /\ call'[c].err = "Invalid document")
                => state'[call[c].user].active]_vars

\* a validator has rejected the document of a call and the call has raised
C8Witness ==
    \E c \in Calls :
        /\ call[c].pc = "raised"
        /\ call[c].err = "Invalid document"
        /\ call[c].vIdx >= 1

\* C14: once generateId has returned the DID d, the wallet yields d's
\* private key for the user's wallet token, and a record of d with the id
\* of its submitted message is persisted; a record exists only for a
\* submitted message and a key only for a persisted record, so that a
\* failed submission leaves neither record nor key and a failed save leaves
\* no key
C14DidOrder ==
    /\ \A c \in Calls :
          /\ call[c].id = "newdid"
                => /\ WalletGetKey(call[c].user, call[c].did)
                          = {PrivateKey(call[c].did)}
                   /\ [did |-> call[c].did,
                       messageId |-> call[c].messageId] \in didRecords
                   /\ [did |-> call[c].did,
                       id |-> call[c].messageId] \in didMessages
          /\ call[c].err = "submission failed"
                => /\ \A m \in didMessages : m.did # call[c].did
                   /\ \A r \in didRecords : r.did # call[c].did
                   /\ \A k \in walletKeys : k.did # call[c].did
          /\ call[c].err = "save failed"
                => /\ \A r \in didRecords : r.did # call[c].did
                   /\ \A k \in walletKeys : k.did # call[c].did
    /\ \A r \in didRecords :
          [did |-> r.did, id |-> r.messageId] \in didMessages
    /\ \A k \in walletKeys : \E r \in didRecords : r.did = k.did

\* generateId returned a new DID to one call, and the save of another
\* call's DID failed after its message was submitted
C14Witness ==
    \E c, d \in Calls :
        /\ call[c].id = "newdid"
        /\ call[d].err = "save failed"
        /\ \E m \in didMessages : m.did = call[d].did

\* the events of a setData call that completed: the Refresh of
\* changeActive(false), the Refresh of changeActive(true), then Run and
\* Refresh with the document state
CompletedEvents == <<RefreshNull, RefreshNull, RunState, RefreshState>>

\* call c has triggered an event that carries the document state
TriggeredDocument(c) ==
    \E i \in 1..Len(call[c].events) : call[c].events[i].data = "state"

\* the part of C18 about one call: its own restore to Active comes before
\* its Run event, Run before Refresh, both carry the document state, and
\* both are triggered by the time setData has returned
C18OwnOrder ==
    \A c \in Calls :
        /\ call[c].pc = "returned" => call[c].events = CompletedEvents
        /\ TriggeredDocument(c)
              => /\ call[c].pc = "returned"
                 /\ call[c].restores = 1
                 /\ call[c].err = ""

\* C18 as stated: the order of the call's own restore, Run and Refresh,
\* and in the step that triggers Run with the document the actor is Active
C18Original ==
    /\ []C18OwnOrder
    /\ [][\A c \in Calls :
            (~TriggeredDocument(c) /\ TriggeredDocument(c)')
                => GetActive(state, call[c].user)]_vars

\* C18 amended: a successful setData runs its own changeActive(true) before
\* it triggers Run, triggers Run before Refresh, both with the document
\* state, and both before it returns; a call that is still between its
\* changeActive(false) and its changeActive(true) has triggered no event
\* with a document. The actor can be Busy again when Run is triggered, by
\* another setData that passed the gate after the restore
C18RestoreRunRefresh ==
    /\ C18OwnOrder
    /\ \A c \in Calls : InBusySection(c) => ~TriggeredDocument(c)

\* a setData call completed while another call of the same actor, which
\* passed the gate after the restore, holds the actor Busy
C18Witness ==
    \E c, d \in Calls :
        /\ call[c].pc = "returned"
        /\ call[c].events = CompletedEvents
        /\ call[d].user = call[c].user
        /\ InBusySection(d)
        /\ ~GetActive(state, call[c].user)

\* C19: a setData call that fails with 'Waiting for schema' has generated
\* no identifier and created no DID, and has restored its actor; a lookup
\* issued when the schema is in the repository resolves it; and once the
\* schema is resolved it stays memoised and no further lookup is issued
C19Claim ==
    /\ [](\A c \in Calls :
            call[c].err = "Waiting for schema"
                => /\ call[c].id = ""
                   /\ call[c].did = 0
                   /\ call[c].restores = 1)
    /\ [][\A c \in Calls :
            (call[c].pc = "findSchema" /\ ~call[c].miss)
                => call'[c].err # "Waiting for schema"]_vars
    /\ [][schema
            => /\ schema'
               /\ \A c \in Calls :
                     call'[c].pc = "findSchema"
                         => call[c].pc = "findSchema"]_vars

\* C20: the validators are run in child order, one after the other, and
\* the evaluation stops at the first rejection: every validator that ran
\* before the last one accepted, the document is accepted only when every
\* child ran and accepted, it is rejected exactly when the last validator
\* that ran rejected, and a block without validators rejects no document
C20ValidatorOrder ==
    \A c \in Calls :
        LET v == call[c].verdicts
            n == reqOptions.validators
        IN /\ Len(v) <= n
           /\ \A i \in 1..Len(v) : v[i].child = i
           /\ \A i \in 1..(Len(v) - 1) : v[i].valid
           /\ call[c].pc \in {"restore", "returned"}
                 => /\ Len(v) = n
                    /\ \A i \in 1..n : v[i].valid
           /\ call[c].err = "Invalid document"
                 <=> (v # <<>> /\ ~v[Len(v)].valid)
           /\ n = 0 => call[c].err # "Invalid document"

\* the second of three validators rejected the document and the third was
\* not run
C20Witness ==
    \E c \in Calls :
        /\ reqOptions.validators = 3
        /\ Len(call[c].verdicts) = 2
        /\ ~call[c].verdicts[2].valid
        /\ call[c].pc = "raised"
        /\ call[c].err = "Invalid document"

\* this step is an operation performed under actor u: the invocation or a
\* resumption of a setData call of u, or changeActive, getActive or getData
\* called for u
StepUnder(u) ==
    \/ \E c \in Calls : SetDataEnter(c, u)
    \/ \E c \in Calls : call[c].user = u /\ SetDataStep(c)
    \/ \E active \in BOOLEAN : ChangeActive(u, active)
    \/ GetActiveCall(u)
    \/ GetData(u)

\* C15: an operation performed under one actor leaves the flag observed
\* under every other actor as it was; a setData is rejected by the gate only
\* when the flag of its own actor is false, whatever the other actors'
\* flags are; and the first access of an actor without an entry, by
\* getActive, getData or setData, finds the actor Active
C15Isolation ==
    /\ [][\A u \in Actors :
            StepUnder(u)
                => \A a \in Actors \ {u} :
                       GetActive(state', a) = GetActive(state, a)]_vars
    /\ [][\A c \in Calls, u \in Actors :
            Invoked(c, u)
                => (call'[c].err = "Block not available"
                        <=> ~GetActive(state, u))]_vars
    /\ [][\A u \in Actors :
            u \notin DOMAIN state
                => /\ (GetActiveCall(u) \/ (GetData(u) /\ schema'))
                          => observed' = <<u, TRUE>>
                   /\ \A c \in Calls :
                          Invoked(c, u) => call'[c].pc = "getKey"]_vars

\* the second actor, never seen before, was observed Active by getActive
\* and its setData has passed the gate, while the first actor is Busy with
\* its own setData
C15Witness ==
    /\ InBusySection(1)
    /\ call[1].user = "did:a1"
    /\ ~GetActive(state, "did:a1")
    /\ observed = <<"did:a2", TRUE>>
    /\ call[2].user = "did:a2"
    /\ PastGate(2)

\* call c passed the gate and has returned or thrown
ResolvedPastGate(c) == call[c].marked /\ call[c].pc \in {"returned", "raised"}

\* C21 as stated: when a setData call that passed the gate has resolved,
\* its actor's flag is true, whenever changeActive(actor, false) was called
\* by another party during the call
C21Original ==
    \A c \in Calls : ResolvedPastGate(c) => GetActive(state, call[c].user)

\* C21 amended: a call that passed the gate runs changeActive(user, true)
\* exactly once before it resolves, which overwrites every deactivation by
\* another party made before it; the call resolves one await later, and a
\* deactivation made in between stays: the flag is true when the call has
\* resolved exactly when no deactivation came after the call's own
\* changeActive(user, true)
C21CompletionOverwrites ==
    \A c \in Calls :
        ResolvedPastGate(c)
            => /\ call[c].restores = 1
               /\ GetActive(state, call[c].user)
                      <=> call[c].deactivated # "late"

\* another party deactivated the actor while the call was Busy, and the
\* call has resolved with the actor Active
C21Witness ==
    \E c \in Calls :
        /\ ResolvedPastGate(c)
        /\ call[c].deactivated = "busy"
        /\ GetActive(state, call[c].user)

\* the message, the record and the key of the DID of call c are in place
DidInPlace(c) ==
    /\ \E m \in didMessages : m.did = call[c].did
    /\ \E r \in didRecords : r.did = call[c].did
    /\ WalletGetKey(call[c].user, call[c].did) # {}

\* call c has got as far as subject verification
AfterGenerateId(c) ==
    \/ call[c].pc \in {"verifySubject", "createVC", "validate", "restore",
                       "returned"}
    \/ call[c].err \in {"subject invalid", "createVC failed",
                        "Invalid document"}

\* the calls that failed after generateId had returned
FailedAfterGenerateId ==
    {c \in Calls : call[c].err \in {"subject invalid", "Invalid document"}}

\* C22: with idType 'DID', a call that has reached subject verification,
\* credential creation or the validators has submitted its DID message,
\* saved its DID record and stored its key; they stay in place when the
\* call then fails with the subject-invalid or the invalid-document error;
\* and every such failed call has added a DID of its own
C22NoRollback ==
    reqOptions.idType = "DID"
        => /\ \A c \in Calls :
                 AfterGenerateId(c)
                     => /\ call[c].id = "newdid"
                        /\ call[c].did # 0
                        /\ DidInPlace(c)
           /\ \A c, d \in FailedAfterGenerateId :
                 c # d => call[c].did # call[d].did
           /\ Cardinality(didRecords) >= Cardinality(FailedAfterGenerateId)
           /\ Cardinality(walletKeys) >= Cardinality(FailedAfterGenerateId)

\* two attempts failed, one with the subject-invalid and one with the
\* invalid-document error, and left two DIDs behind
C22Witness ==
    /\ reqOptions.idType = "DID"
    /\ \E c, d \in Calls :
          /\ call[c].pc = "raised"
          /\ call[c].err = "subject invalid"
          /\ call[d].pc = "raised"
          /\ call[d].err = "Invalid document"
    /\ Cardinality(didRecords) = 2
    /\ Cardinality(walletKeys) = 2

\* ------------------------------------------------------------------------
\* Properties of the Mint block
\* ------------------------------------------------------------------------

\* the message ids of the input documents that have one, in input order
RECURSIVE InputMessageIds(_)
InputMessageIds(ds) ==
    IF ds = <<>> THEN <<>>
    ELSE (IF Head(ds).messageId # NoId THEN <<Head(ds).messageId>> ELSE <<>>)
             \o InputMessageIds(Tail(ds))

\* the account values of the input documents that have an accounts map,
\* in input order
RECURSIVE InputAccountValues(_)
InputAccountValues(ds) ==
    IF ds = <<>> THEN <<>>
    ELSE (IF Head(ds).accounts # NoAccounts THEN <<Head(ds).accounts>>
                                            ELSE <<>>)
             \o InputAccountValues(Tail(ds))

\* the VC message with this id is on the ledger before position j
VCSubmittedBefore(id, j) ==
    \E i \in 1..(j - 1) : ledger[i].kind = "VC" /\ ledger[i].id = id

VCPersisted(id) ==
    \E r \in 1..Len(vcRecords) : vcRecords[r].messageId = id

\* C3: while the VP message is being submitted and once it is on the
\* ledger, the VC message is on the ledger with a message id and its record
\* is persisted, and the relationships of the VP message are the input
\* documents' message ids followed by the VC message id
C3TwoPhaseOrder ==
    /\ mpc = "sendVP"
          => /\ local.vcMsgId # NoId
             /\ VCSubmittedBefore(local.vcMsgId, Len(ledger) + 1)
             /\ VCPersisted(local.vcMsgId)
             /\ local.relationships
                    = InputMessageIds(docs) \o <<local.vcMsgId>>
    /\ \A j \in 1..Len(ledger) :
          ledger[j].kind = "VP"
              => /\ local.vcMsgId # NoId
                 /\ VCSubmittedBefore(local.vcMsgId, j)
                 /\ VCPersisted(local.vcMsgId)
                 /\ ledger[j].relationships
                        = InputMessageIds(docs) \o <<local.vcMsgId>>

\* the VP message is on the ledger and relates to an input document and to
\* the VC message
C3Witness ==
    \E j \in 1..Len(ledger) :
        /\ ledger[j].kind = "VP"
        /\ Len(ledger[j].relationships) >= 2

\* C4 as stated: when the VP envelope is created by createVP, the VC's
\* message id exists and is not empty
C4Original == local.vp => local.vpBuiltVcId # NoId

\* C4 amended: the VP message that carries the relationships is built only
\* after the VC submission has succeeded, when the VC's message id exists
\* and is not empty; the VP document it carries is created by createVP
\* before the VC message is submitted
C4VPMessageAfterVC ==
    /\ local.vpMessage
          => /\ local.vp
             /\ local.vcMsgId # NoId
             /\ \E i \in 1..Len(ledger) :
                    ledger[i].kind = "VC" /\ ledger[i].id = local.vcMsgId
    /\ local.vp => local.vpBuiltVcId = NoId
    /\ local.vcMsgId # NoId => local.vp

\* the VP message has been built
C4Witness == local.vpMessage /\ mpc = "sendVP"

\* C5: every persisted VP record has a relationships field that holds the
\* input documents' message ids and the VC message id
C5Claim ==
    \A r \in 1..Len(vpRecords) :
        /\ "relationships" \in DOMAIN vpRecords[r]
        /\ vpRecords[r].relationships
               = InputMessageIds(docs) \o <<local.vcMsgId>>

\* C6: when the aggregated amount is NaN or not finite, runAction has
\* failed with the invalid amount error and nothing was created, submitted,
\* persisted, minted or emitted
C6InvalidAmount ==
    local.amount \in {"NaN", "Infinity"}
        => /\ mpc = "failed"
           /\ merr = "Invalid token value"
           /\ ~local.mintVC
           /\ ~local.vp
           /\ ledger = <<>>
           /\ vcRecords = <<>>
           /\ vpRecords = <<>>
           /\ minted = <<>>
           /\ mEvents = <<>>

\* the aggregation gave a number that is not finite and runAction failed
C6Witness == local.amount = "Infinity" /\ merr = "Invalid token value"

\* C7: a failed runAction has triggered no output event; when events are
\* triggered they are Run then Refresh, and the token mint has returned
C7NoPartialEvents ==
    /\ mpc = "failed" => mEvents = <<>>
    /\ mEvents # <<>>
          => /\ [i \in 1..Len(mEvents) |-> mEvents[i].type]
                   = <<"Run", "Refresh">>
             /\ mpc = "done"
             /\ Len(minted) = 1
    /\ mpc = "done" => mEvents # <<>>

\* the token mint failed after both records were persisted
C7Witness ==
    /\ mpc = "failed"
    /\ merr = "mint failed"
    /\ vcRecords # <<>>
    /\ vpRecords # <<>>

\* C9: with an account field configured and the first account value an
\* account id, differing account values resolve the recipient to the first
\* value with exactly one warning and no failure; equal values give no
\* warning
C9Claim ==
    (mintOptions.accountId /\ local.resolved)
        => LET values == InputAccountValues(docs)
           IN (values # <<>> /\ values[1] # "")
                => IF \E i \in 1..Len(values) : values[i] # values[1]
                   THEN /\ local.target = values[1]
                        /\ warnings = 1
                        /\ merr # "Token recipient not set"
                   ELSE warnings = 0

\* C10: with an account field configured, the recipient is the first
\* non-empty account value of the input documents, and runAction fails
\* with the no-recipient error only when there is none
C10Claim ==
    (mintOptions.accountId /\ local.resolved)
        => LET nonEmpty == SelectSeq(InputAccountValues(docs),
                                     LAMBDA v : v # "")
           IN IF nonEmpty # <<>>
              THEN /\ local.target = nonEmpty[1]
                   /\ merr # "Token recipient not set"
              ELSE merr = "Token recipient not set"

\* runAction has not changed anything outside the block: nothing was
\* created, submitted, persisted, minted or emitted
NoMintEffects ==
    /\ ~local.mintVC
    /\ ~local.vp
    /\ ledger = <<>>
    /\ vcRecords = <<>>
    /\ vpRecords = <<>>
    /\ minted = <<>>
    /\ mEvents = <<>>

\* runAction is past the token lookup, which found the token
TokenFound == mpc \notin {"idle", "findToken"} /\ merr # "Bad token id"

\* C11: invoked with an empty document set and an existing token,
\* runAction fails with the bad-document error 'Bad VC', and submits, mints
\* and emits nothing
C11Claim ==
    (TokenFound /\ docs = <<>>)
        => /\ mpc = "failed"
           /\ merr = "Bad VC"
           /\ NoMintEffects

C13Original ==
    \A i \in 1..Len(mEvents) : mEvents[i].user = EventUser

\* C13 amended: on success runAction triggers Run and then Refresh for
\* docOwner, the user found for the owner of the first input document,
\* whoever the actor of the incoming event is
C13DocOwnerEvents ==
    /\ mpc = "done"
          => /\ Len(mEvents) = 2
             /\ mEvents[1] = [type |-> "Run", user |-> local.owner]
             /\ mEvents[2] = [type |-> "Refresh", user |-> local.owner]
             /\ local.owner \in DocOwners
    /\ mpc # "done" => mEvents = <<>>

\* runAction succeeded for documents whose owner is not the event's actor
C13Witness ==
    /\ mpc = "done"
    /\ mEvents # <<>>
    /\ local.owner # EventUser

\* the positions of the ledger that hold a message of this kind
MessagesOfKind(kind) == {j \in 1..Len(ledger) : ledger[j].kind = kind}

\* C17: one runAction submits at most one VC message and at most one VP
\* message and mints at most once; the mint is invoked only when the VP
\* submission has returned its message id and the VP record is persisted,
\* and it is passed the message id of the VP submission
C17NoDuplication ==
    /\ Cardinality(MessagesOfKind("VC")) <= 1
    /\ Cardinality(MessagesOfKind("VP")) <= 1
    /\ Len(minted) <= 1
    /\ (mpc = "mint" \/ minted # <<>>)
          => /\ local.vpMsgId # NoId
             /\ \E j \in MessagesOfKind("VP") : ledger[j].id = local.vpMsgId
             /\ \E r \in 1..Len(vpRecords) :
                    vpRecords[r].messageId = local.vpMsgId
    /\ \A m \in 1..Len(minted) :
          \E j \in MessagesOfKind("VP") : ledger[j].id = minted[m].memo
    /\ mpc = "failed" /\ merr = "mint failed" => minted = <<>>

\* the token was minted once, after both submissions
C17Witness ==
    /\ Len(minted) = 1
    /\ Cardinality(MessagesOfKind("VC")) = 1
    /\ Cardinality(MessagesOfKind("VP")) = 1
    /\ minted[1].memo = local.vpMsgId


\* runAction failed in phase 2: at the VP submission, the VP persist or
\* the token mint
FailedInPhase2 == mpc = "failed" /\ local.vpMessage

\* C23: when runAction fails in phase 2, the VC message submitted in phase
\* 1 is on the ledger and its record is persisted; after a failed VP
\* submission there is no VP message, no VP record and no mint; after a
\* failed VP persist there is no VP record and no mint; after a failed mint
\* the VC and the VP record are both persisted and nothing is minted
C23NoRollback ==
    FailedInPhase2
        => /\ \E j \in MessagesOfKind("VC") : ledger[j].id = local.vcMsgId
           /\ Len(vcRecords) = 1
           /\ VCPersisted(local.vcMsgId)
           /\ minted = <<>>
           /\ mEvents = <<>>
           /\ merr \in {"submission failed", "save failed", "mint failed"}
           /\ merr = "submission failed"
                 => /\ MessagesOfKind("VP") = {}
                    /\ vpRecords = <<>>
           /\ merr = "save failed"
                 => /\ Cardinality(MessagesOfKind("VP")) = 1
                    /\ vpRecords = <<>>
           /\ merr = "mint failed"
                 => /\ Cardinality(MessagesOfKind("VP")) = 1
                    /\ Len(vpRecords) = 1
                    /\ vpRecords[1].messageId = local.vpMsgId

\* the VP submission failed after the VC message was submitted and its
\* record persisted
C23Witness ==
    /\ FailedInPhase2
    /\ merr = "submission failed"
    /\ Cardinality(MessagesOfKind("VC")) = 1
    /\ vcRecords # <<>>

\* ------------------------------------------------------------------------
\* Properties of the validation
\* ------------------------------------------------------------------------

\* the options of the block are wrong whatever the repository holds
MintMisconfigured ==
    \/ valOptions.mint.tokenId # "string"
    \/ valOptions.mint.rule # "string"
    \/ valOptions.mint.accountType = "other"
    \/ valOptions.mint.accountType = "custom" /\ ~valOptions.mint.accountId

RequestMisconfigured == valOptions.request.schema # "string"

\* C16: validate of the Mint and of the Request block never raises to its
\* caller; a failure inside it is caught and leaves exactly one generic
\* error for the block; every error is recorded under the uuid of the block
\* that was validated; and when both blocks of a policy are misconfigured,
\* validating them in either order leaves errors under both uuids
C16ValidateCaught ==
    /\ \A i \in 1..Len(validated) :
          /\ validated[i].outcome # "raised"
          /\ validated[i].outcome = "caught"
                => resultsContainer[validated[i].uuid] = <<Unhandled>>
          /\ validated[i].outcome = "returned"
                => \A j \in 1..Len(resultsContainer[validated[i].uuid]) :
                       resultsContainer[validated[i].uuid][j] # Unhandled
    /\ \A u \in BlockUuids \ ValidatedUuids : resultsContainer[u] = <<>>
    /\ (ValidatedUuids = BlockUuids /\ MintMisconfigured
            /\ RequestMisconfigured)
          => \A u \in BlockUuids : resultsContainer[u] # <<>>

\* two misconfigured blocks were validated, the Request block first, and
\* the token lookup of Mint validate was rejected and caught
C16Witness ==
    /\ MintMisconfigured
    /\ RequestMisconfigured
    /\ Len(validated) = 2
    /\ validated[1] = [uuid |-> RequestUuid, outcome |-> "returned"]
    /\ validated[2] = [uuid |-> MintUuid, outcome |-> "caught"]
    /\ resultsContainer[RequestUuid] # <<>>
    /\ resultsContainer[MintUuid] = <<Unhandled>>

====
